---------------------------- MODULE Spec2Model ----------------------------
(***************************************************************************)
(* A model of the face anonymizer (src/main.py): the tiled multi-scale     *)
(* detection generators, the bounding-box geometry of process_img, the     *)
(* mosaic loop of process, and the file / directory jobs with their two    *)
(* progress callbacks.                                                     *)
(*                                                                         *)
(* Numbers.  Python floats are modelled by exact rationals: a fractional   *)
(* oracle coordinate is k/FracDen, face_expand is k/ExpandDen, a progress  *)
(* value is a pair <<num, den>>.  int(x) is truncation toward zero.        *)
(*                                                                         *)
(* Axes.  The source unpacks img.shape (rows, cols, channels) as           *)
(* "w, h, _" in process and sliding_window and as "h, w, _" in             *)
(* process_img.  The model keeps rows and cols apart: a box is             *)
(* (x1, y1, x2, y2) with x along the columns (frame width W = cols) and y  *)
(* along the rows (frame height H = rows).                                 *)
(***************************************************************************)
EXTENDS Integers, Sequences, FiniteSets, TLC

VARIABLES
    \* ---- detection generators over one frame (geometry only) ----
    rows, cols,        \* img.shape[0], img.shape[1] of the frame
    window_sizes,      \* self.window_sizes
    face_expand,       \* self.face_expand, as a numerator over ExpandDen
    face_min_size,     \* self.face_min_size
    ws,                \* position of the loop of sliding_windows (1-based)
    i, j,              \* loop variables of sliding_window
    dpc,               \* position of the generator chain
    tiles,             \* tiles[k]: the windows generated for window_sizes[k]
    raw, expanded,     \* locals of process_img after line 69 and after line 75
    box,               \* the box last yielded, in frame coordinates
    emitted,           \* TRUE when the last detection was yielded
    \* ---- the pixels of the frame that process works on ----
    orig,              \* the frame as it was decoded
    img,               \* the frame buffer (mutated in place by process)
    pixelated_img,     \* the whole-frame mosaic of process lines 97-98
    pixelation_factor, \* self.pixelation_factor
    applied,           \* the boxes the loop of process has pasted so far
    oracle_read,       \* what the last oracle invocation was given to read
    mpc,               \* position in process
    \* ---- one run of process_file or process_dir ----
    mode,              \* "file" (process_file) or "dir" (process_dir)
    listing,           \* the files as path.rglob("*") discovers them
    bar_hidden,        \* click draws no progress bar (stdout is no terminal)
    files_to_process,  \* process_dir's list after the filter and the sort
    idx,               \* position of the loop of process_dir (1-based)
    bpc,               \* position in the run
    job,               \* the job in hand: kind, output path, what its media do
    started,           \* the files whose job has started, in order
    completed,         \* the files whose job has returned, in order
    failures,          \* <<position, kind>>: the failures the jobs have met
    outfiles,          \* <<output path, position>>: files created or written
    local_seq,         \* the values passed to local_progress_callback
    global_seq,        \* the progress values passed to global_progress_callback
    \* ---- the front end: ExecutionPanel and its Worker ----
    parameters_ok,     \* parameters_panel.get_parameters() is not None
    selected_type,     \* file_panel.selected_type, "none" when nothing is selected
    start_enabled,     \* start_button.isEnabled()
    jobs,              \* the Workers created so far
    outcome,           \* per Worker: its fn is "running", "raised" or "returned"
    wpc,               \* per Worker: the position of its run
    signals_emitted,   \* progress signals the running fn has emitted
    queue,             \* signals emitted by the worker thread, not yet delivered
    shown,             \* the message boxes shown, in order
    global_progress_bar, \* value of the bar self.global_progress
    local_progress_bar   \* value of the bar self.local_progress

detectVars == <<rows, cols, window_sizes, face_expand, face_min_size, ws, i, j,
                dpc, tiles, raw, expanded, box, emitted>>

pixelVars == <<orig, img, pixelated_img, pixelation_factor, applied, oracle_read,
               mpc>>

batchVars == <<mode, listing, bar_hidden, files_to_process, idx, bpc, job, started,
               completed, failures, outfiles, local_seq, global_seq>>

guiVars == <<parameters_ok, selected_type, start_enabled, jobs, outcome, wpc,
             signals_emitted, queue, shown, global_progress_bar,
             local_progress_bar>>

vars == <<detectVars, pixelVars, batchVars, guiVars>>

-----------------------------------------------------------------------------
(* Bounds of the model *)

MaxDim == 3          \* frame rows and cols range over 1..MaxDim
MaxWindow == 3       \* window sizes range over 1..MaxWindow
FracDen == 2         \* oracle coordinates are multiples of 1/FracDen in [0,1]
ExpandDen == 2       \* face_expand is a multiple of 1/ExpandDen in [0,1]
MaxMinSize == 1      \* face_min_size ranges over 0..MaxMinSize
MaxPixelation == 2   \* pixelation_factor ranges over 1..MaxPixelation
MaxBoxes == 2        \* boxes pasted into one frame by the loop of process
MaxFiles == 2        \* files in the directory tree
MaxFrames == 2       \* frames in a video, and the frame count it reports
MaxJobs == 2         \* Workers started in one session of the front end
MaxSignals == 2      \* progress signals one job emits
MaxRefused == 1      \* presses of the start button refused with a message box

-----------------------------------------------------------------------------
(* Arithmetic *)

Min(a, b) == IF a <= b THEN a ELSE b
Max(a, b) == IF a >= b THEN a ELSE b

\* int(a / b) of Python for b > 0: truncation toward zero
TruncDiv(a, b) == IF a >= 0 THEN a \div b ELSE -((-a) \div b)

\* math.ceil(a / b) for a >= 0, b > 0
CeilDiv(a, b) == (a + b - 1) \div b

NoBox == [x1 |-> -1, y1 |-> -1, x2 |-> -1, y2 |-> -1]

\* no oracle invocation yet
NoRead == <<>>

-----------------------------------------------------------------------------
(* sliding_window: the tiling of one axis *)

\* windows_x = math.ceil(w / window_step), window_step = window_size / 2
WindowsCount(d, s) == CeilDiv(2 * d, s)

\* step_x = int(w / windows_x)
WindowStep(d, s) == TruncDiv(d, WindowsCount(d, s))

\* x1 = int(i * step_x), x2 = int((i + 1) * step_x)
TileLo(k, step) == k * step
TileHi(k, step) == (k + 1) * step

\* the window img[x1:x2, y1:y2] of loop position (a, b): x over the rows,
\* y over the cols, as in the source
Window(r, c, s, a, b) ==
    [x1 |-> TileLo(a, WindowStep(r, s)), x2 |-> TileHi(a, WindowStep(r, s)),
     y1 |-> TileLo(b, WindowStep(c, s)), y2 |-> TileHi(b, WindowStep(c, s))]

-----------------------------------------------------------------------------
(* process_img: the geometry of one detection on an image of w cols, h rows *)

BBoxes == [xmin : 0..FracDen, ymin : 0..FracDen,
           width : 0..FracDen, height : 0..FracDen]

\* lines 66-69
RawBox(bbox, w, h) ==
    [x1 |-> TruncDiv(bbox.xmin * w, FracDen),
     y1 |-> TruncDiv(bbox.ymin * h, FracDen),
     x2 |-> TruncDiv((bbox.xmin + bbox.width) * w, FracDen),
     y2 |-> TruncDiv((bbox.ymin + bbox.height) * h, FracDen)]

\* lines 72-75: four assignments in sequence; the last two read the x1 and
\* y1 the first two have already moved
ExpandBox(b, fe) ==
    LET nx1 == b.x1 - TruncDiv(fe * (b.x2 - b.x1), ExpandDen)
        ny1 == b.y1 - TruncDiv(fe * (b.y2 - b.y1), ExpandDen)
        nx2 == b.x2 + TruncDiv(fe * (b.x2 - nx1), ExpandDen)
        ny2 == b.y2 + TruncDiv(fe * (b.y2 - ny1), ExpandDen)
    IN  [x1 |-> nx1, y1 |-> ny1, x2 |-> nx2, y2 |-> ny2]

\* line 78: max(0, x1)
ClampLo(v) == Max(0, v)

ClampHiBug(v, limit) == v
\* line 79: min(w, x2)
ClampHi(v, limit) == Min(limit, v)

\* lines 78-79
ClampBox(b, w, h) ==
    [x1 |-> ClampLo(b.x1), y1 |-> ClampLo(b.y1),
     x2 |-> ClampHi(b.x2, w), y2 |-> ClampHi(b.y2, h)]

\* line 82
TooSmall(b, ms) == b.x2 - b.x1 < ms \/ b.y2 - b.y1 < ms

\* line 142: (y1 + fx1, x1 + fy1, y1 + fx2, x1 + fy2) for the window win
Translate(b, win) ==
    [x1 |-> win.y1 + b.x1, y1 |-> win.x1 + b.y1,
     x2 |-> win.y1 + b.x2, y2 |-> win.x1 + b.y2]

-----------------------------------------------------------------------------
(* The detection generators of one frame: chain(sliding_windows(img),       *)
(* process_img(img)) of process, without the pixels.  One oracle answer is  *)
(* consumed detection by detection: any number of detections, each any     *)
(* bbox of BBoxes.                                                          *)

NumWindowSizes == 2      \* the default window_sizes has two entries

WindowSizeSeqs == [1..NumWindowSizes -> 1..MaxWindow]

Tiled == ws <= Len(window_sizes)

\* the image the current process_img call works on: a window of the tiled
\* passes, or the whole frame in the final pass
CurWin ==
    IF Tiled THEN Window(rows, cols, window_sizes[ws], i, j)
    ELSE [x1 |-> 0, x2 |-> rows, y1 |-> 0, y2 |-> cols]

WinW(win) == win.y2 - win.y1     \* img.shape[1] of the window
WinH(win) == win.x2 - win.x1     \* img.shape[0] of the window

DetectInit ==
    /\ rows \in 1..MaxDim
    /\ cols \in 1..MaxDim
    /\ window_sizes \in WindowSizeSeqs
    /\ face_expand \in 0..ExpandDen
    /\ face_min_size \in 0..MaxMinSize
    /\ ws = 1 /\ i = 0 /\ j = 0
    /\ dpc = "window"
    /\ tiles = [k \in 1..NumWindowSizes |-> {}]
    /\ raw = NoBox /\ expanded = NoBox /\ box = NoBox
    /\ emitted = FALSE

\* sliding_window lines 126-141, process_img lines 58-59: the next window is
\* cut out and handed to the oracle
SlidingWindowTile ==
    /\ dpc = "window" /\ Tiled
    /\ WinW(CurWin) > 0 /\ WinH(CurWin) > 0
    /\ tiles' = [tiles EXCEPT ![ws] = @ \cup {CurWin}]
    /\ dpc' = "detections"
    /\ UNCHANGED <<rows, cols, window_sizes, face_expand, face_min_size, ws, i, j,
                   raw, expanded, box, emitted>>

\* the same with a step of 0: the window is empty and cv2.cvtColor (line 58)
\* raises on an empty image
SlidingWindowEmptyTile ==
    /\ dpc = "window" /\ Tiled
    /\ (WinW(CurWin) = 0 \/ WinH(CurWin) = 0)
    /\ tiles' = [tiles EXCEPT ![ws] = @ \cup {CurWin}]
    /\ dpc' = "error"
    /\ UNCHANGED <<rows, cols, window_sizes, face_expand, face_min_size, ws, i, j,
                   raw, expanded, box, emitted>>

\* process line 100: after the tiled passes, process_img(img) on the frame
FullFramePass ==
    /\ dpc = "window" /\ ~Tiled
    /\ dpc' = "detections"
    /\ UNCHANGED <<rows, cols, window_sizes, face_expand, face_min_size, ws, i, j,
                   tiles, raw, expanded, box, emitted>>

\* process_img lines 61-88 (one detection), sliding_window line 142
ProcessImgDetection ==
    /\ dpc = "detections"
    /\ \E bbox \in BBoxes, win \in {CurWin} :
         \E r \in {RawBox(bbox, WinW(win), WinH(win))} :
           \E e \in {ExpandBox(r, face_expand)} :
             \E c \in {ClampBox(e, WinW(win), WinH(win))} :
               /\ raw' = r
               /\ expanded' = e
               /\ emitted' = ~TooSmall(c, face_min_size)
               /\ box' = IF TooSmall(c, face_min_size) THEN NoBox
                         ELSE Translate(c, win)
    /\ dpc' = "detected"
    /\ UNCHANGED <<rows, cols, window_sizes, face_expand, face_min_size, ws, i, j,
                   tiles>>

\* the consumer asks for the next box (after the yield of line 88 or 142), or
\* line 83 continues: the loop of line 61 goes on to the next detection
ProcessImgResume ==
    /\ dpc = "detected"
    /\ dpc' = "detections"
    /\ raw' = NoBox /\ expanded' = NoBox /\ box' = NoBox /\ emitted' = FALSE
    /\ UNCHANGED <<rows, cols, window_sizes, face_expand, face_min_size, ws, i, j,
                   tiles>>

\* the detections of the current image are exhausted: the loops of
\* sliding_window (lines 126, 129) and sliding_windows (line 112) advance
ProcessImgEnd ==
    /\ dpc = "detections"
    /\ IF ~Tiled
         THEN /\ dpc' = "done"
              /\ UNCHANGED <<ws, i, j>>
         ELSE /\ dpc' = "window"
              /\ IF j + 1 < WindowsCount(cols, window_sizes[ws])
                   THEN /\ j' = j + 1
                        /\ UNCHANGED <<ws, i>>
                   ELSE IF i + 1 < WindowsCount(rows, window_sizes[ws])
                          THEN /\ i' = i + 1 /\ j' = 0
                               /\ UNCHANGED ws
                          ELSE /\ ws' = ws + 1 /\ i' = 0 /\ j' = 0
    /\ UNCHANGED <<rows, cols, window_sizes, face_expand, face_min_size, tiles,
                   raw, expanded, box, emitted>>

(* SpecDetect: the generators alone; the pixel buffers are not modelled      *)

PixelsIdle ==
    /\ orig = <<>> /\ img = <<>> /\ pixelated_img = <<>>
    /\ pixelation_factor = 0 /\ applied = <<>> /\ mpc = "idle"
    /\ oracle_read = NoRead

BatchIdle ==
    /\ mode = "none" /\ listing = <<>> /\ bar_hidden = FALSE
    /\ files_to_process = <<>> /\ idx = 0 /\ bpc = "idle" /\ job = <<>>
    /\ started = <<>> /\ completed = <<>> /\ failures = {} /\ outfiles = {}
    /\ local_seq = <<>> /\ global_seq = <<>>

GuiIdle ==
    /\ parameters_ok = FALSE /\ selected_type = "none" /\ start_enabled = FALSE
    /\ jobs = 0 /\ outcome = <<>> /\ wpc = <<>> /\ signals_emitted = 0
    /\ queue = <<>> /\ shown = <<>>
    /\ global_progress_bar = 0 /\ local_progress_bar = 0

InitDetect ==
    /\ DetectInit
    /\ PixelsIdle
    /\ BatchIdle
    /\ GuiIdle

DetectTile == SlidingWindowTile /\ UNCHANGED <<pixelVars, batchVars, guiVars>>
DetectEmptyTile == SlidingWindowEmptyTile /\ UNCHANGED <<pixelVars, batchVars, guiVars>>
DetectFullFrame == FullFramePass /\ UNCHANGED <<pixelVars, batchVars, guiVars>>
DetectDetection == ProcessImgDetection /\ UNCHANGED <<pixelVars, batchVars, guiVars>>
DetectResume == ProcessImgResume /\ UNCHANGED <<pixelVars, batchVars, guiVars>>
DetectEnd == ProcessImgEnd /\ UNCHANGED <<pixelVars, batchVars, guiVars>>

NextDetect ==
    \/ DetectTile
    \/ DetectEmptyTile
    \/ DetectFullFrame
    \/ DetectDetection
    \/ DetectResume
    \/ DetectEnd

SpecDetect == InitDetect /\ [][NextDetect]_vars

-----------------------------------------------------------------------------
(* Properties of SpecDetect *)

\* the half-open intervals ivs cover every index of 0..d-1
AxisCovered(d, ivs) == \A p \in 0..(d - 1) : \E t \in ivs : t[1] <= p /\ p < t[2]

\* C1 (tiling coverage): once sliding_window has generated all the windows of
\* a window size, along each axis the window intervals [k*step, (k+1)*step)
\* cover every pixel index 0..d-1 of the frame.
C1_TilingCoverage ==
    \A k \in 1..NumWindowSizes :
        k < ws =>
            /\ AxisCovered(rows, {<<t.x1, t.x2>> : t \in tiles[k]})
            /\ AxisCovered(cols, {<<t.y1, t.y2>> : t \in tiles[k]})

\* C3 (box invariant): every box yielded by the tiled passes and by the
\* full-frame pass lies inside the frame, 0 <= x1 <= x2 <= W and
\* 0 <= y1 <= y2 <= H in frame coordinates, and is at least face_min_size
\* wide and high.
C3_BoxInvariant ==
    (dpc = "detected" /\ emitted) =>
        /\ 0 <= box.x1 /\ box.x1 <= box.x2 /\ box.x2 <= cols
        /\ 0 <= box.y1 /\ box.y1 <= box.y2 /\ box.y2 <= rows
        /\ box.x2 - box.x1 >= face_min_size
        /\ box.y2 - box.y1 >= face_min_size

\* a box of positive area yielded by a window that does not start at the
\* frame's left edge, after an expansion that left the window and was clamped
C3_Witness ==
    /\ dpc = "detected" /\ emitted /\ Tiled
    /\ CurWin.y1 > 0
    /\ expanded.x2 > WinW(CurWin) /\ expanded.x1 < 0
    /\ box.x2 > box.x1 /\ box.y2 > box.y1
    /\ face_min_size > 0

\* C8 (box expansion): the box process_img holds before clamping is the raw
\* box grown by trunc(f*w) on the left and on the right and by trunc(f*h) at
\* the top and at the bottom, w and h being the raw box's width and height.
C8_SymmetricExpansion ==
    dpc = "detected" =>
        expanded =
            [x1 |-> raw.x1 - TruncDiv(face_expand * (raw.x2 - raw.x1), ExpandDen),
             y1 |-> raw.y1 - TruncDiv(face_expand * (raw.y2 - raw.y1), ExpandDen),
             x2 |-> raw.x2 + TruncDiv(face_expand * (raw.x2 - raw.x1), ExpandDen),
             y2 |-> raw.y2 + TruncDiv(face_expand * (raw.y2 - raw.y1), ExpandDen)]

-----------------------------------------------------------------------------
(* Pixels.  A frame of r rows and c cols is a function from Pixels(r, c) to *)
(* a channel value; the three channels are treated alike by the source, so  *)
(* one is modelled.  A pixel is <<y, x>>: row, then column, as numpy        *)
(* indexes.                                                                 *)

Pixels(r, c) == (0..(r - 1)) \X (0..(c - 1))

PixelValues == {0, 16}

Frames(r, c) == [Pixels(r, c) -> PixelValues]

\* the source sample and weight of cv2.resize along one axis, for the
\* destination index o of n_out from a source of n_in: the result is
\* ((d - w) * src[s] + w * src[s + 1]) / d.
\* INTER_LINEAR (the default of line 97): the sample point is
\* (o + 0.5) * n_in / n_out - 0.5, clamped to the source.
LinearCoef(o, n_in, n_out) ==
    LET P == (2 * o + 1) * n_in - n_out
        D == 2 * n_out
    IN  IF P < 0 THEN [s |-> 0, w |-> 0, d |-> D]
        ELSE IF P \div D >= n_in - 1 THEN [s |-> n_in - 1, w |-> 0, d |-> D]
        ELSE [s |-> P \div D, w |-> P % D, d |-> D]

\* INTER_AREA when enlarging (line 98): sx = floor(o * n_in / n_out),
\* fx = (o + 1) - (sx + 1) * n_out / n_in, fx <= 0 ? 0 : fx - floor(fx)
AreaCoef(o, n_in, n_out) ==
    LET sx == (o * n_in) \div n_out
        num == (o + 1) * n_in - (sx + 1) * n_out
    IN  IF num <= 0 THEN [s |-> Min(sx, n_in - 1), w |-> 0, d |-> n_in]
        ELSE IF sx >= n_in - 1 THEN [s |-> n_in - 1, w |-> 0, d |-> n_in]
        ELSE [s |-> sx, w |-> num % n_in, d |-> n_in]

Weighted(f, y, x, wy, wx) == IF wy = 0 \/ wx = 0 THEN 0 ELSE wy * wx * f[<<y, x>>]

\* the interpolated value of the destination pixel with coefficients cy, cx,
\* rounded to the nearest integer
Sample(f, cy, cx) ==
    LET num == Weighted(f, cy.s, cx.s, cy.d - cy.w, cx.d - cx.w)
             + Weighted(f, cy.s, cx.s + 1, cy.d - cy.w, cx.w)
             + Weighted(f, cy.s + 1, cx.s, cy.w, cx.d - cx.w)
             + Weighted(f, cy.s + 1, cx.s + 1, cy.w, cx.w)
        den == cy.d * cx.d
    IN  (2 * num + den) \div (2 * den)

\* cv2.resize(f, (nc, nr)) of a frame of r rows and c cols
ResizeLinear(f, r, c, nr, nc) ==
    [p \in Pixels(nr, nc) |->
        Sample(f, LinearCoef(p[1], r, nr), LinearCoef(p[2], c, nc))]

\* cv2.resize(f, (nc, nr), interpolation=cv2.INTER_AREA), enlarging
ResizeArea(f, r, c, nr, nc) ==
    [p \in Pixels(nr, nc) |->
        Sample(f, AreaCoef(p[1], r, nr), AreaCoef(p[2], c, nc))]

\* process lines 91-95: pixelated_size, as (rows, cols) of the small image
PixelatedRows(r, pf) == TruncDiv(r, pf)
PixelatedCols(c, pf) == TruncDiv(c, pf)

\* process lines 97-98: the whole-frame mosaic
Mosaic(f, r, c, pf) ==
    ResizeArea(ResizeLinear(f, r, c, PixelatedRows(r, pf), PixelatedCols(c, pf)),
               PixelatedRows(r, pf), PixelatedCols(c, pf), r, c)

InBox(p, b) == b.y1 <= p[1] /\ p[1] < b.y2 /\ b.x1 <= p[2] /\ p[2] < b.x2

\* the mosaic is taken again from the buffer being written, box by box
PasteRegionBug(cur, pix, b) ==
    [p \in DOMAIN cur |->
        IF InBox(p, b) THEN Mosaic(cur, rows, cols, pixelation_factor)[p] ELSE cur[p]]

\* process line 108: img[y1:y2, x1:x2] = pixelated_img[y1:y2, x1:x2]
PasteRegion(cur, pix, b) ==
    [p \in DOMAIN cur |-> IF InBox(p, b) THEN pix[p] ELSE cur[p]]

\* the boxes inside a frame of r rows and c cols: those of positive area, and
\* one empty box (every empty box selects the same empty slice)
InBoundsBoxes(r, c) ==
    {b \in [x1 : 0..c, y1 : 0..r, x2 : 0..c, y2 : 0..r] :
        \/ b.x1 < b.x2 /\ b.y1 < b.y2
        \/ b = [x1 |-> 0, y1 |-> 0, x2 |-> 0, y2 |-> 0]}

-----------------------------------------------------------------------------
(* process (lines 90-109) on the pixels *)

\* lines 91-98: the mosaic of the whole frame is computed once, before the
\* loop, into a buffer of its own
ProcessPrepare ==
    /\ mpc = "start"
    /\ PixelatedRows(rows, pixelation_factor) >= 1
    /\ PixelatedCols(cols, pixelation_factor) >= 1
    /\ pixelated_img' = Mosaic(img, rows, cols, pixelation_factor)
    /\ mpc' = "loop"
    /\ UNCHANGED <<orig, img, pixelation_factor, applied, oracle_read>>

\* line 97 with a pixelated_size of 0 in either axis: cv2.resize raises
ProcessResizeError ==
    /\ mpc = "start"
    /\ \/ PixelatedRows(rows, pixelation_factor) < 1
       \/ PixelatedCols(cols, pixelation_factor) < 1
    /\ mpc' = "error"
    /\ UNCHANGED <<orig, img, pixelated_img, pixelation_factor, applied, oracle_read>>

\* line 108, for the box b the generators have yielded
ProcessPaste(b) ==
    /\ mpc = "loop"
    /\ img' = PasteRegion(img, pixelated_img, b)
    /\ UNCHANGED <<orig, pixelated_img, pixelation_factor, oracle_read, mpc>>

\* line 109
ProcessReturn ==
    /\ mpc = "loop"
    /\ mpc' = "returned"
    /\ UNCHANGED <<orig, img, pixelated_img, pixelation_factor, applied, oracle_read>>

-----------------------------------------------------------------------------
(* SpecMosaic: the loop of process fed with any sequence of in-bounds boxes  *)

FrameShapes == {<<1, 2>>, <<2, 2>>}

GeneratorsIdle ==
    /\ window_sizes = <<>> /\ face_expand = 0 /\ face_min_size = 0
    /\ ws = 0 /\ i = 0 /\ j = 0 /\ dpc = "idle" /\ tiles = <<>>
    /\ raw = NoBox /\ expanded = NoBox /\ box = NoBox /\ emitted = FALSE

generatorVars == <<window_sizes, face_expand, face_min_size, ws, i, j, dpc, tiles,
                   raw, expanded, box, emitted>>

InitMosaic ==
    /\ \E sh \in FrameShapes : rows = sh[1] /\ cols = sh[2]
    /\ orig \in Frames(rows, cols)
    /\ img = orig
    /\ pixelated_img = <<>>
    /\ pixelation_factor \in 1..MaxPixelation
    /\ applied = <<>>
    /\ oracle_read = NoRead
    /\ mpc = "start"
    /\ GeneratorsIdle
    /\ BatchIdle
    /\ GuiIdle

MosaicPrepare == ProcessPrepare /\ UNCHANGED <<rows, cols, generatorVars, batchVars, guiVars>>

MosaicResizeError == ProcessResizeError /\ UNCHANGED <<rows, cols, generatorVars, batchVars, guiVars>>

MosaicPaste ==
    /\ Len(applied) < MaxBoxes
    /\ \E b \in InBoundsBoxes(rows, cols) :
         /\ ProcessPaste(b)
         /\ applied' = Append(applied, b)
    /\ UNCHANGED <<rows, cols, generatorVars, batchVars, guiVars>>

MosaicReturn == ProcessReturn /\ UNCHANGED <<rows, cols, generatorVars, batchVars, guiVars>>

NextMosaic ==
    \/ MosaicPrepare
    \/ MosaicResizeError
    \/ MosaicPaste
    \/ MosaicReturn

SpecMosaic == InitMosaic /\ [][NextMosaic]_vars

-----------------------------------------------------------------------------
(* Properties of SpecMosaic *)

RECURSIVE PasteAll(_, _, _)
PasteAll(cur, pix, bs) ==
    IF bs = <<>> THEN cur
    ELSE PasteAll(PasteRegion(cur, pix, Head(bs)), pix, Tail(bs))

\* what process makes of the frame f when its generators yield the boxes bs
Anonymize(f, bs) == PasteAll(f, Mosaic(f, rows, cols, pixelation_factor), bs)

Reorderings(bs) ==
    {[k \in 1..Len(bs) |-> bs[pi[k]]] : pi \in Permutations(1..Len(bs))}

\* the sequence q with its k-th box repeated
WithRepeat(q, k) == SubSeq(q, 1, k) \o <<q[k]>> \o SubSeq(q, k + 1, Len(q))

\* C2, the part that holds (order and repetition): the frame the loop has
\* produced from the boxes pasted so far is pixel-identical to what process
\* produces from the decoded frame for every permutation of those boxes and
\* for every such sequence with one of its boxes repeated.
C2_OrderAndRepeatIrrelevant ==
    mpc \in {"loop", "returned"} =>
        \A pix \in {Mosaic(orig, rows, cols, pixelation_factor)} :
            \A q \in Reorderings(applied) :
                /\ PasteAll(orig, pix, q) = img
                /\ \A k \in 1..Len(q) : PasteAll(orig, pix, WithRepeat(q, k)) = img

\* two different overlapping boxes have been pasted and the mosaic differs
\* from the frame
C2_Witness ==
    /\ mpc = "returned"
    /\ Len(applied) = 2 /\ applied[1] # applied[2]
    /\ \E p \in Pixels(rows, cols) : InBox(p, applied[1]) /\ InBox(p, applied[2])
    /\ \E p \in Pixels(rows, cols) : InBox(p, applied[1]) /\ ~InBox(p, applied[2])
    /\ img # orig

\* C2 as claimed: the above, and anonymizing the result a second time with
\* the same boxes leaves it pixel-identical.
C2_Idempotence ==
    /\ C2_OrderAndRepeatIrrelevant
    /\ mpc = "returned" => Anonymize(img, applied) = img

-----------------------------------------------------------------------------
(* SpecFrame: process on one frame with its own generators.  The chain of    *)
(* line 100 is lazy: the loop body of line 108 runs between two resumptions  *)
(* of the generators, and each oracle invocation (cv2.cvtColor copies the    *)
(* window at line 58, the detector runs at line 59) reads the buffer img as  *)
(* it is at that moment.                                                     *)

\* the pixels of the window win of the frame buffer f (win.x over the rows)
Crop(f, win) ==
    [p \in {q \in DOMAIN f : /\ win.x1 <= q[1] /\ q[1] < win.x2
                             /\ win.y1 <= q[2] /\ q[2] < win.y2} |-> f[p]]

\* the decoded frames of this specification: at most one bright pixel
SparseFrames(r, c) ==
    {f \in Frames(r, c) : Cardinality({p \in Pixels(r, c) : f[p] # 0}) <= 1}

InitFrame ==
    /\ \E sh \in FrameShapes : rows = sh[1] /\ cols = sh[2]
    /\ orig \in SparseFrames(rows, cols)
    /\ img = orig
    /\ pixelated_img = <<>>
    /\ pixelation_factor \in 1..MaxPixelation
    /\ applied = <<>>
    /\ oracle_read = NoRead
    /\ mpc = "start"
    /\ window_sizes \in WindowSizeSeqs
    /\ face_expand \in 0..ExpandDen
    /\ face_min_size \in 0..MaxMinSize
    /\ ws = 1 /\ i = 0 /\ j = 0
    /\ dpc = "window"
    /\ tiles = [k \in 1..NumWindowSizes |-> {}]
    /\ raw = NoBox /\ expanded = NoBox /\ box = NoBox
    /\ emitted = FALSE
    /\ BatchIdle
    /\ GuiIdle

FramePrepare == ProcessPrepare /\ UNCHANGED <<detectVars, batchVars, guiVars>>

FrameResizeError == ProcessResizeError /\ UNCHANGED <<detectVars, batchVars, guiVars>>

\* the generators are resumed for the next window; the oracle reads it
FrameTile ==
    /\ mpc = "loop"
    /\ SlidingWindowTile
    /\ oracle_read' = Crop(img, CurWin)
    /\ UNCHANGED <<orig, img, pixelated_img, pixelation_factor, applied, mpc>>
    /\ UNCHANGED <<batchVars, guiVars>>

\* the exception of the empty window leaves process
FrameEmptyTile ==
    /\ mpc = "loop"
    /\ SlidingWindowEmptyTile
    /\ mpc' = "error"
    /\ UNCHANGED <<orig, img, pixelated_img, pixelation_factor, applied, oracle_read>>
    /\ UNCHANGED <<batchVars, guiVars>>

FrameFullFrame ==
    /\ mpc = "loop"
    /\ FullFramePass
    /\ oracle_read' = Crop(img, CurWin)
    /\ UNCHANGED <<orig, img, pixelated_img, pixelation_factor, applied, mpc>>
    /\ UNCHANGED <<batchVars, guiVars>>

FrameDetection ==
    /\ mpc = "loop"
    /\ ProcessImgDetection
    /\ UNCHANGED <<pixelVars, batchVars, guiVars>>

\* a yielded box reaches the loop body (line 108), which pastes it before the
\* generators are resumed; a filtered detection (line 83) goes straight on
FrameResume ==
    /\ mpc = "loop"
    /\ ProcessImgResume
    /\ IF emitted
         THEN ProcessPaste(box) /\ UNCHANGED applied
         ELSE UNCHANGED pixelVars
    /\ UNCHANGED <<batchVars, guiVars>>

FrameEnd ==
    /\ mpc = "loop"
    /\ ProcessImgEnd
    /\ UNCHANGED <<pixelVars, batchVars, guiVars>>

\* the chain is exhausted: line 109
FrameReturn ==
    /\ dpc = "done"
    /\ ProcessReturn
    /\ UNCHANGED <<detectVars, batchVars, guiVars>>

NextFrame ==
    \/ FramePrepare
    \/ FrameResizeError
    \/ FrameTile
    \/ FrameEmptyTile
    \/ FrameFullFrame
    \/ FrameDetection
    \/ FrameResume
    \/ FrameEnd
    \/ FrameReturn

SpecFrame == InitFrame /\ [][NextFrame]_vars

-----------------------------------------------------------------------------
(* Properties of SpecFrame *)

\* C9 (detection precedes mutation): every oracle invocation of one call of
\* process (each window of each window size, and the full-frame pass) reads
\* pixel data equal to the frame as it was decoded: no pixel it reads has
\* been overwritten with mosaic before it.
C9_DetectionPrecedesMutation ==
    (mpc = "loop" /\ dpc \in {"detections", "detected"}) =>
        oracle_read = Crop(orig, CurWin)

\* ------------------------------------------------------------------------
\* process_file and process_dir: the files of one run, their jobs, the output
\* files and the two progress callbacks.
\* ------------------------------------------------------------------------

video_extensions == {".mp4", ".avi", ".mov"}
image_extensions == {".jpg", ".jpeg", ".png"}
supported_extensions == video_extensions \cup image_extensions

\* The paths a directory tree may hold: an image and two videos of the same
\* stem in the directory itself, an image and a video in a subdirectory, a
\* text file, and a directory whose name ends like an image.
File(d, s, e) == [dir |-> d, stem |-> s, ext |-> e, is_file |-> TRUE]

Paths ==
    {File(".", "a", ".jpg"), File(".", "a", ".mp4"), File(".", "a", ".avi"),
     File(".", "a", ".txt"), File("sub", "a", ".jpg"), File("sub", "a", ".mp4"),
     [dir |-> ".", stem |-> "d", ext |-> ".jpg", is_file |-> FALSE]}

\* What rglob can return: distinct paths in any order.
Listings ==
    UNION {{q \in [1..n -> Paths] : \A a, b \in 1..n : a # b => q[a] # q[b]} :
           n \in 0..MaxFiles}

Eligible(f) == f.is_file /\ f.ext \in supported_extensions

SortKeyBug(f) == IF f.ext \in video_extensions THEN 1 ELSE 0

\* key=lambda f: f.suffix in image_extensions (True orders as 1, False as 0)
SortKey(f) == IF f.ext \in image_extensions THEN 1 ELSE 0

\* One step of the stable sort with reverse=True: f, later in the input than
\* every element of q, goes behind the elements whose key is not smaller.
InsertByKey(f, q) ==
    LET n == Cardinality({k \in DOMAIN q : SortKey(q[k]) >= SortKey(f)})
    IN  SubSeq(q, 1, n) \o <<f>> \o SubSeq(q, n + 1, Len(q))

RECURSIVE Sorted(_)
Sorted(q) ==
    IF q = <<>> THEN <<>>
    ELSE InsertByKey(q[Len(q)], Sorted(SubSeq(q, 1, Len(q) - 1)))

\* out_path / filename.relative_to(path).parent / filename.name
DirOutPath(f) ==
    [root |-> "in_anonymized", dir |-> f.dir, stem |-> <<f.stem>>, ext |-> f.ext]

\* filename.with_stem(f"{filename.stem}_anonymized")
FileOutPath(f) ==
    [root |-> "in", dir |-> f.dir, stem |-> <<f.stem, "_anonymized">>, ext |-> f.ext]

FileType(f) == IF f.ext \in video_extensions THEN "video" ELSE "image"

\* The path _process_file hands to the job.
OutFilepath(f, out) ==
    IF f.ext \in video_extensions THEN [out EXCEPT !.ext = ".mp4"] ELSE out

\* Progress values are fractions <<numerator, denominator>>.
FracLE(a, b) == a[1] * b[2] <= b[1] * a[2]

BarPctBug(pos, length) == <<pos, IF length = 0 THEN 1 ELSE length>>

\* click's ProgressBar.pct: 1.0 once a step has brought pos to length,
\* min(pos / (length or 1), 1.0) before.
BarPct(pos, length) ==
    IF pos > 0 /\ pos >= length THEN <<1, 1>>
    ELSE LET q == <<pos, IF length = 0 THEN 1 ELSE length>>
         IN  IF FracLE(q, <<1, 1>>) THEN q ELSE <<1, 1>>

\* What the media of a job turn out to be: cond is "ok", "unreadable" (imread
\* returns None, the capture does not open), "unwritable" (imwrite returns
\* False, the writer does not open) or "oracle_error" (process raises);
\* frames is the number of frames the capture delivers and total the count it
\* reports.
Media(f) ==
    IF f.ext \in video_extensions
    THEN {[cond |-> "unreadable", frames |-> 0, total |-> 0]}
         \cup [cond : {"ok", "unwritable", "oracle_error"},
               frames : 0..MaxFrames, total : 0..MaxFrames]
    ELSE IF f.ext \in image_extensions
    THEN [cond : {"ok", "unreadable", "unwritable", "oracle_error"},
          frames : {0}, total : {0}]
    ELSE {[cond |-> "unreadable", frames |-> 0, total |-> 0]}

NoJob == <<>>

InitBatch ==
    /\ mode \in {"file", "dir"}
    /\ listing \in Listings
    /\ mode = "file" => (Len(listing) = 1 /\ listing[1].is_file)
    /\ bar_hidden \in BOOLEAN
    /\ files_to_process = <<>> /\ idx = 0 /\ bpc = "start" /\ job = NoJob
    /\ started = <<>> /\ completed = <<>> /\ failures = {} /\ outfiles = {}
    /\ local_seq = <<>> /\ global_seq = <<>>
    /\ rows = 0 /\ cols = 0
    /\ GeneratorsIdle
    /\ PixelsIdle
    /\ GuiIdle

\* _process_file up to the call of the job.
StartJob(f, out, global_progress) ==
    /\ global_seq' = Append(global_seq, [progress |-> global_progress,
                                         filetype |-> FileType(f),
                                         filename |-> f])
    /\ started' = Append(started, f)
    /\ \E m \in Media(f) :
          job' = [out |-> OutFilepath(f, out), cond |-> m.cond,
                  frames |-> m.frames, total |-> m.total, pos |-> 0]
    /\ bpc' = FileType(f)

\* _process_file after the job, and the loop of process_dir moving on.
JobReturn ==
    /\ completed' = Append(completed, started[Len(started)])
    /\ job' = NoJob
    /\ IF mode = "dir"
       THEN idx' = idx + 1 /\ bpc' = "loop"
       ELSE idx' = idx /\ bpc' = "returned"

ProcessFile ==
    /\ bpc = "start" /\ mode = "file"
    /\ files_to_process' = listing
    /\ idx' = 1
    /\ StartJob(listing[1], FileOutPath(listing[1]), <<0, 1>>)
    /\ UNCHANGED <<mode, listing, bar_hidden, completed, failures, outfiles,
                   local_seq>>

ProcessDirStart ==
    /\ bpc = "start" /\ mode = "dir"
    /\ files_to_process' = Sorted(SelectSeq(listing, Eligible))
    /\ idx' = 1
    /\ bpc' = "loop"
    /\ UNCHANGED <<mode, listing, bar_hidden, job, started, completed, failures,
                   outfiles, local_seq, global_seq>>

ProcessDirNext ==
    /\ bpc = "loop" /\ mode = "dir"
    /\ idx <= Len(files_to_process)
    /\ StartJob(files_to_process[idx], DirOutPath(files_to_process[idx]),
                BarPct(IF bar_hidden THEN 0 ELSE idx - 1, Len(files_to_process)))
    /\ UNCHANGED <<mode, listing, bar_hidden, files_to_process, idx, completed,
                   failures, outfiles, local_seq>>

\* out_subpath.mkdir raises: the output tree cannot be created.
ProcessDirMkdirError ==
    /\ bpc = "loop" /\ mode = "dir"
    /\ idx <= Len(files_to_process)
    /\ failures' = failures \cup {<<idx, "unwritable">>}
    /\ bpc' = "raised"
    /\ UNCHANGED <<mode, listing, bar_hidden, files_to_process, idx, job, started,
                   completed, outfiles, local_seq, global_seq>>

ProcessDirReturn ==
    /\ bpc = "loop" /\ mode = "dir"
    /\ idx > Len(files_to_process)
    /\ bpc' = "returned"
    /\ UNCHANGED <<mode, listing, bar_hidden, files_to_process, idx, job, started,
                   completed, failures, outfiles, local_seq, global_seq>>

\* process_image_file returning: imwrite writes the file, or returns False.
ProcessImageFile ==
    /\ bpc = "image"
    /\ job.cond \in {"ok", "unwritable"}
    /\ IF job.cond = "ok"
       THEN outfiles' = outfiles \cup {<<job.out, Len(started)>>}
            /\ UNCHANGED failures
       ELSE failures' = failures \cup {<<Len(started), "unwritable">>}
            /\ UNCHANGED outfiles
    /\ JobReturn
    /\ UNCHANGED <<mode, listing, bar_hidden, files_to_process, started,
                   local_seq, global_seq>>

\* process_image_file raising: process(None) after a failed imread, or the
\* detection raising inside process.
ProcessImageFileError ==
    /\ bpc = "image"
    /\ job.cond \in {"unreadable", "oracle_error"}
    /\ failures' = failures \cup {<<Len(started), job.cond>>}
    /\ bpc' = "raised"
    /\ UNCHANGED <<mode, listing, bar_hidden, files_to_process, idx, job, started,
                   completed, outfiles, local_seq, global_seq>>

\* process_video_file up to its loop: the capture and the writer are
\* constructed, the writer before anything is known about the capture. A
\* writer for a capture that did not open (fps 0, size 0x0) may or may not
\* leave a file behind.
ProcessVideoOpen ==
    /\ bpc = "video"
    /\ \E created \in BOOLEAN :
          /\ job.cond \in {"ok", "oracle_error"} => created
          /\ job.cond = "unwritable" => ~created
          /\ outfiles' = IF created
                         THEN outfiles \cup {<<job.out, Len(started)>>}
                         ELSE outfiles
    /\ failures' = IF job.cond \in {"unreadable", "unwritable"}
                   THEN failures \cup {<<Len(started), job.cond>>}
                   ELSE failures
    /\ bpc' = "frames"
    /\ UNCHANGED <<mode, listing, bar_hidden, files_to_process, idx, job, started,
                   completed, local_seq, global_seq>>

\* One turn of the loop: a frame is read, processed and written.
ProcessVideoFrame ==
    /\ bpc = "frames"
    /\ job.cond \in {"ok", "unwritable"}
    /\ job.pos < job.frames
    /\ job' = [job EXCEPT !.pos = job.pos + 1]
    /\ local_seq' = Append(local_seq, [file |-> Len(started),
                                       pct |-> BarPct(job.pos + 1, job.total)])
    /\ UNCHANGED <<mode, listing, bar_hidden, files_to_process, idx, bpc, started,
                   completed, failures, outfiles, global_seq>>

\* One turn of the loop in which process raises.
ProcessVideoFrameError ==
    /\ bpc = "frames"
    /\ job.cond = "oracle_error"
    /\ job.pos < job.frames
    /\ failures' = failures \cup {<<Len(started), "oracle_error">>}
    /\ bpc' = "raised"
    /\ UNCHANGED <<mode, listing, bar_hidden, files_to_process, idx, job, started,
                   completed, outfiles, local_seq, global_seq>>

\* The loop ends: the capture is not open, or read returns no frame.
ProcessVideoEnd ==
    /\ bpc = "frames"
    /\ job.cond = "unreadable" \/ job.pos = job.frames
    /\ failures' = IF job.cond # "unreadable" /\ job.frames = 0
                   THEN failures \cup {<<Len(started), "noframes">>}
                   ELSE failures
    /\ JobReturn
    /\ UNCHANGED <<mode, listing, bar_hidden, files_to_process, started, outfiles,
                   local_seq, global_seq>>

BatchFile == ProcessFile /\ UNCHANGED <<detectVars, pixelVars, guiVars>>
BatchDirStart == ProcessDirStart /\ UNCHANGED <<detectVars, pixelVars, guiVars>>
BatchDirNext == ProcessDirNext /\ UNCHANGED <<detectVars, pixelVars, guiVars>>
BatchDirMkdirError == ProcessDirMkdirError /\ UNCHANGED <<detectVars, pixelVars, guiVars>>
BatchDirReturn == ProcessDirReturn /\ UNCHANGED <<detectVars, pixelVars, guiVars>>
BatchImageFile == ProcessImageFile /\ UNCHANGED <<detectVars, pixelVars, guiVars>>
BatchImageFileError == ProcessImageFileError /\ UNCHANGED <<detectVars, pixelVars, guiVars>>
BatchVideoOpen == ProcessVideoOpen /\ UNCHANGED <<detectVars, pixelVars, guiVars>>
BatchVideoFrame == ProcessVideoFrame /\ UNCHANGED <<detectVars, pixelVars, guiVars>>
BatchVideoFrameError == ProcessVideoFrameError /\ UNCHANGED <<detectVars, pixelVars, guiVars>>
BatchVideoEnd == ProcessVideoEnd /\ UNCHANGED <<detectVars, pixelVars, guiVars>>

NextBatch ==
    \/ BatchFile
    \/ BatchDirStart
    \/ BatchDirNext
    \/ BatchDirMkdirError
    \/ BatchDirReturn
    \/ BatchImageFile
    \/ BatchImageFileError
    \/ BatchVideoOpen
    \/ BatchVideoFrame
    \/ BatchVideoFrameError
    \/ BatchVideoEnd

SpecBatch == InitBatch /\ [][NextBatch]_vars

\* ------------------------------------------------------------------------
\* Properties of a run of process_file or process_dir.
\* ------------------------------------------------------------------------

InUnit(a) == FracLE(<<0, 1>>, a) /\ FracLE(a, <<1, 1>>)

Range(q) == {q[k] : k \in DOMAIN q}

\* The position at which rglob discovered f.
Discovered(f) == CHOOSE k \in DOMAIN listing : listing[k] = f

C5_VideoReadFailure ==
    \A k \in DOMAIN started :
        (FileType(started[k]) = "video"
            /\ (<<k, "unreadable">> \in failures \/ <<k, "noframes">> \in failures)) =>
            /\ Len(completed) < k
            /\ \A o \in outfiles : o[2] # k

\* C6 (batch abort on failure): in process_dir, once the job of the k-th file
\* has failed (unreadable source, unwritable destination, oracle error), no
\* later file is started and process_dir does not return normally. (That the
\* outputs of the earlier jobs are still there needs no conjunct: no step of
\* a run removes a file.)
C6_BatchAbort ==
    mode = "dir" =>
        \A fl \in failures :
            fl[2] \in {"unreadable", "unwritable", "oracle_error"} =>
                /\ Len(started) <= fl[1]
                /\ bpc # "returned"

\* C7 (batch ordering): in process_dir every eligible image of the listing has
\* completed its job before any video job starts, jobs run one at a time, and
\* two jobs of the same kind start in the order in which their files were
\* discovered.
C7_BatchOrdering ==
    mode = "dir" =>
        /\ Len(started) - Len(completed) \in {0, 1}
        /\ \A k \in DOMAIN started :
              FileType(started[k]) = "video" =>
                  \A m \in DOMAIN listing :
                      (Eligible(listing[m]) /\ listing[m].ext \in image_extensions) =>
                          \E c \in DOMAIN completed :
                              c < k /\ completed[c] = listing[m]
        /\ \A a, b \in DOMAIN started :
              (a < b /\ FileType(started[a]) = FileType(started[b])) =>
                  Discovered(started[a]) < Discovered(started[b])

\* process_dir has returned from a listing in which a video was discovered
\* before an image, and both were processed.
C7_Witness ==
    /\ bpc = "returned" /\ mode = "dir"
    /\ \E a, b \in DOMAIN listing :
          /\ a < b
          /\ Eligible(listing[a]) /\ listing[a].ext \in video_extensions
          /\ Eligible(listing[b]) /\ listing[b].ext \in image_extensions
          /\ listing[a] \in Range(completed)
          /\ listing[b] \in Range(completed)

\* C10 (distinct outputs in a batch): in process_dir two distinct files to
\* process are given different output paths, and no output file is written by
\* two jobs.
C10_DistinctOutputs ==
    mode = "dir" =>
        /\ \A a, b \in DOMAIN files_to_process :
              a # b =>
                  OutFilepath(files_to_process[a], DirOutPath(files_to_process[a]))
                      # OutFilepath(files_to_process[b], DirOutPath(files_to_process[b]))
        /\ \A x, y \in outfiles : x[1] = y[1] => x[2] = y[2]

\* ------------------------------------------------------------------------
\* The front end: ExecutionPanel.start creates a Worker whose run calls
\* process_file or process_dir on a thread of the pool; the Worker's signals
\* are delivered to the slots of ExecutionPanel on the GUI thread, in the
\* order in which they were emitted.
\* ------------------------------------------------------------------------

\* The values a job passes to the progress callbacks, as fractions.
ProgressValues == {<<0, 1>>, <<1, 2>>}

\* int(progress * 100)
Percent(p) == TruncDiv(100 * p[1], p[2])

Notice(kind, title, n) == [box |-> kind, title |-> title, job |-> n]

Refused == Cardinality({k \in DOMAIN shown : shown[k].job = 0})

InitWorker ==
    /\ parameters_ok \in BOOLEAN
    /\ selected_type \in {"none", "file", "dir"}
    /\ start_enabled = TRUE
    /\ jobs = 0 /\ outcome = <<>> /\ wpc = <<>> /\ signals_emitted = 0
    /\ queue = <<>> /\ shown = <<>>
    /\ global_progress_bar = 0 /\ local_progress_bar = 0
    /\ rows = 0 /\ cols = 0
    /\ GeneratorsIdle
    /\ PixelsIdle
    /\ BatchIdle

\* ExecutionPanel.start: the parameters are not valid.
StartNoParameters ==
    /\ start_enabled
    /\ ~parameters_ok
    /\ Refused < MaxRefused
    /\ shown' = Append(shown, Notice("critical", "parameters", 0))
    /\ UNCHANGED <<parameters_ok, selected_type, start_enabled, jobs, outcome, wpc,
                   signals_emitted, queue, global_progress_bar, local_progress_bar>>

\* ExecutionPanel.start: no file or directory is selected.
StartNoSelection ==
    /\ start_enabled
    /\ parameters_ok
    /\ selected_type = "none"
    /\ Refused < MaxRefused
    /\ shown' = Append(shown, Notice("critical", "selection", 0))
    /\ UNCHANGED <<parameters_ok, selected_type, start_enabled, jobs, outcome, wpc,
                   signals_emitted, queue, global_progress_bar, local_progress_bar>>

\* ExecutionPanel.start: a Worker is created, connected and handed to the
\* thread pool.
Start ==
    /\ start_enabled
    /\ parameters_ok
    /\ selected_type # "none"
    /\ jobs < MaxJobs
    /\ start_enabled' = FALSE
    /\ global_progress_bar' = 0
    /\ local_progress_bar' = 0
    /\ jobs' = jobs + 1
    /\ outcome' = Append(outcome, "running")
    /\ wpc' = Append(wpc, "fn")
    /\ signals_emitted' = 0
    /\ UNCHANGED <<parameters_ok, selected_type, queue, shown>>

\* The job calls global_progress_callback, which is signals.global_progress.emit.
FnGlobalProgress ==
    /\ jobs > 0 /\ wpc[jobs] = "fn"
    /\ signals_emitted < MaxSignals
    /\ \E p \in ProgressValues, t \in {"image", "video"} :
          queue' = Append(queue, [sig |-> "global_progress", job |-> jobs,
                                  progress |-> p, filetype |-> t])
    /\ signals_emitted' = signals_emitted + 1
    /\ UNCHANGED <<parameters_ok, selected_type, start_enabled, jobs, outcome, wpc,
                   shown, global_progress_bar, local_progress_bar>>

\* The job calls local_progress_callback, which is signals.local_progress.emit.
FnLocalProgress ==
    /\ jobs > 0 /\ wpc[jobs] = "fn"
    /\ signals_emitted < MaxSignals
    /\ \E p \in ProgressValues :
          queue' = Append(queue, [sig |-> "local_progress", job |-> jobs,
                                  progress |-> p, filetype |-> "video"])
    /\ signals_emitted' = signals_emitted + 1
    /\ UNCHANGED <<parameters_ok, selected_type, start_enabled, jobs, outcome, wpc,
                   shown, global_progress_bar, local_progress_bar>>

\* Worker.run: self.fn returns.
FnReturn ==
    /\ jobs > 0 /\ wpc[jobs] = "fn"
    /\ outcome' = [outcome EXCEPT ![jobs] = "returned"]
    /\ wpc' = [wpc EXCEPT ![jobs] = "else"]
    /\ UNCHANGED <<parameters_ok, selected_type, start_enabled, jobs,
                   signals_emitted, queue, shown, global_progress_bar,
                   local_progress_bar>>

\* Worker.run: self.fn raises.
FnRaise ==
    /\ jobs > 0 /\ wpc[jobs] = "fn"
    /\ outcome' = [outcome EXCEPT ![jobs] = "raised"]
    /\ wpc' = [wpc EXCEPT ![jobs] = "except"]
    /\ UNCHANGED <<parameters_ok, selected_type, start_enabled, jobs,
                   signals_emitted, queue, shown, global_progress_bar,
                   local_progress_bar>>

\* Worker.run, except: signals.error.emit.
RunExcept ==
    /\ \E w \in DOMAIN wpc :
          /\ wpc[w] = "except"
          /\ queue' = Append(queue, [sig |-> "error", job |-> w,
                                     progress |-> <<0, 1>>, filetype |-> "none"])
          /\ wpc' = [wpc EXCEPT ![w] = "finally"]
    /\ UNCHANGED <<parameters_ok, selected_type, start_enabled, jobs, outcome,
                   signals_emitted, shown, global_progress_bar, local_progress_bar>>

\* Worker.run, else: signals.result.emit, to which start connects no slot.
RunElse ==
    /\ \E w \in DOMAIN wpc :
          /\ wpc[w] = "else"
          /\ wpc' = [wpc EXCEPT ![w] = "finally"]
    /\ UNCHANGED <<parameters_ok, selected_type, start_enabled, jobs, outcome,
                   signals_emitted, queue, shown, global_progress_bar,
                   local_progress_bar>>

\* Worker.run, finally: signals.finished.emit.
RunFinally ==
    /\ \E w \in DOMAIN wpc :
          /\ wpc[w] = "finally"
          /\ queue' = Append(queue, [sig |-> "finished", job |-> w,
                                     progress |-> <<0, 1>>, filetype |-> "none"])
          /\ wpc' = [wpc EXCEPT ![w] = "done"]
    /\ UNCHANGED <<parameters_ok, selected_type, start_enabled, jobs, outcome,
                   signals_emitted, shown, global_progress_bar, local_progress_bar>>

\* ExecutionPanel.global_progress_update
GlobalProgressUpdate ==
    /\ queue # <<>>
    /\ Head(queue).sig = "global_progress"
    /\ queue' = Tail(queue)
    /\ local_progress_bar' = IF Head(queue).filetype = "video" THEN 0 ELSE 100
    /\ global_progress_bar' = Percent(Head(queue).progress)
    /\ UNCHANGED <<parameters_ok, selected_type, start_enabled, jobs, outcome, wpc,
                   signals_emitted, shown>>

\* ExecutionPanel.local_progress_update
LocalProgressUpdate ==
    /\ queue # <<>>
    /\ Head(queue).sig = "local_progress"
    /\ queue' = Tail(queue)
    /\ local_progress_bar' = Percent(Head(queue).progress)
    /\ UNCHANGED <<parameters_ok, selected_type, start_enabled, jobs, outcome, wpc,
                   signals_emitted, shown, global_progress_bar>>

\* ExecutionPanel.finish, the slot of signals.finished
Finish ==
    /\ queue # <<>>
    /\ Head(queue).sig = "finished"
    /\ queue' = Tail(queue)
    /\ start_enabled' = TRUE
    /\ local_progress_bar' = 0
    /\ global_progress_bar' = 100
    /\ shown' = Append(shown, Notice("information", "success", Head(queue).job))
    /\ UNCHANGED <<parameters_ok, selected_type, jobs, outcome, wpc,
                   signals_emitted>>

\* ExecutionPanel.error, the slot of signals.error
ErrorSlot ==
    /\ queue # <<>>
    /\ Head(queue).sig = "error"
    /\ queue' = Tail(queue)
    /\ shown' = Append(shown, Notice("critical", "error", Head(queue).job))
    /\ start_enabled' = TRUE
    /\ UNCHANGED <<parameters_ok, selected_type, jobs, outcome, wpc,
                   signals_emitted, global_progress_bar, local_progress_bar>>

WorkerStartNoParameters == StartNoParameters /\ UNCHANGED <<detectVars, pixelVars, batchVars>>
WorkerStartNoSelection == StartNoSelection /\ UNCHANGED <<detectVars, pixelVars, batchVars>>
WorkerStart == Start /\ UNCHANGED <<detectVars, pixelVars, batchVars>>
WorkerFnGlobalProgress == FnGlobalProgress /\ UNCHANGED <<detectVars, pixelVars, batchVars>>
WorkerFnLocalProgress == FnLocalProgress /\ UNCHANGED <<detectVars, pixelVars, batchVars>>
WorkerFnReturn == FnReturn /\ UNCHANGED <<detectVars, pixelVars, batchVars>>
WorkerFnRaise == FnRaise /\ UNCHANGED <<detectVars, pixelVars, batchVars>>
WorkerRunExcept == RunExcept /\ UNCHANGED <<detectVars, pixelVars, batchVars>>
WorkerRunElse == RunElse /\ UNCHANGED <<detectVars, pixelVars, batchVars>>
WorkerRunFinally == RunFinally /\ UNCHANGED <<detectVars, pixelVars, batchVars>>
WorkerGlobalProgressUpdate == GlobalProgressUpdate /\ UNCHANGED <<detectVars, pixelVars, batchVars>>
WorkerLocalProgressUpdate == LocalProgressUpdate /\ UNCHANGED <<detectVars, pixelVars, batchVars>>
WorkerFinish == Finish /\ UNCHANGED <<detectVars, pixelVars, batchVars>>
WorkerError == ErrorSlot /\ UNCHANGED <<detectVars, pixelVars, batchVars>>

NextWorker ==
    \/ WorkerStartNoParameters
    \/ WorkerStartNoSelection
    \/ WorkerStart
    \/ WorkerFnGlobalProgress
    \/ WorkerFnLocalProgress
    \/ WorkerFnReturn
    \/ WorkerFnRaise
    \/ WorkerRunExcept
    \/ WorkerRunElse
    \/ WorkerRunFinally
    \/ WorkerGlobalProgressUpdate
    \/ WorkerLocalProgressUpdate
    \/ WorkerFinish
    \/ WorkerError

SpecWorker == InitWorker /\ [][NextWorker]_vars

(* Properties of SpecWorker *)

\* The message boxes of one kind shown for the n-th Worker.
Shown(title, n) ==
    Cardinality({k \in DOMAIN shown : shown[k].title = title /\ shown[k].job = n})

\* Every signal of the n-th Worker has been delivered.
Delivered(n) == wpc[n] = "done" /\ \A k \in DOMAIN queue : queue[k].job # n

\* C11 (failure is never reported as success): for every job run by
\* Worker.run whose function raised, the front end shows at most one error
\* notice, exactly one once the Worker's signals are delivered, and never the
\* success notice of ExecutionPanel.finish; the success notice is shown only
\* for a job whose function returned.
C11_FailureNeverSuccess ==
    \A n \in 1..jobs :
        /\ outcome[n] = "raised" =>
              /\ Shown("error", n) <= 1
              /\ Delivered(n) => Shown("error", n) = 1
              /\ Shown("success", n) = 0
        /\ Shown("success", n) > 0 => outcome[n] = "returned"

=============================================================================
